---- MODULE Spec2Model ----
(***************************************************************************)
(* Model of the RibbonSlider and VisibilityController classes of           *)
(* src/demo1/scripts.js: the slide deck (currentSlide, the class lists of  *)
(* the slides and dots), the autoplay interval, the progress bar, the      *)
(* touch coordinates, and the page visibility that drives start/stop.      *)
(* Every handler the script registers is one action.                       *)
(***************************************************************************)
EXTENDS Integers, FiniteSets, Sequences, TLC

(* ---- bounds of the model ---- *)
MaxSlides == 3          \* number of .ribbon-item elements ranges over 0..MaxSlides
MaxDots == 3            \* number of .nav-dot elements ranges over 0..MaxDots
MaxTimerId == 3         \* setInterval is called at most MaxTimerId times in a run

(* ---- program constants ---- *)
SWIPE_THRESHOLD == 50
NaN == -999             \* the Number value NaN (result of x % 0)

Coords == {200, 250, 300}            \* clientX values delivered by touch events
Keys == {"ArrowLeft", "ArrowRight", "Enter"}
SlideClasses == {"active", "prev", "next"}

VARIABLES
    totalSlides,        \* this.totalSlides
    slides,             \* this.slides: index -> classList (subset of SlideClasses)
    dots,               \* this.dots: index -> classList contains 'active'
    currentSlide,       \* this.currentSlide
    autoPlayInterval,   \* this.autoPlayInterval: 0 is null, otherwise an interval id
    intervals,          \* ids of the setInterval schedules the host still runs
    nextTimerId,        \* the id the next setInterval call returns
    hasProgressBar,     \* this.progressBar is not null
    progressAnimation,  \* this.progressBar.style.animation
    progressTimeouts,   \* pending setTimeout callbacks of restartProgressBar
    touchStartX,        \* this.touchStartX
    touchEndX,          \* this.touchEndX
    hidden,             \* document.hidden
    visibilityChanged,  \* a visibilitychange event has been delivered
    fault,              \* the last handler ended with an uncaught TypeError
    lastEvent           \* the event the last handler was run for

vars == <<totalSlides, slides, dots, currentSlide, autoPlayInterval, intervals,
          nextTimerId, hasProgressBar, progressAnimation, progressTimeouts,
          touchStartX, touchEndX, hidden, visibilityChanged, fault, lastEvent>>

deckVars == <<totalSlides, slides, dots, currentSlide>>
timerVars == <<autoPlayInterval, intervals, nextTimerId>>
progressVars == <<hasProgressBar, progressAnimation, progressTimeouts>>
touchVars == <<touchStartX, touchEndX>>
pageVars == <<hidden, visibilityChanged>>

(* ---- JavaScript number operations on integers and NaN ---- *)
IsNaN(a) == a = NaN

JsAdd(a, b) == IF IsNaN(a) \/ IsNaN(b) THEN NaN ELSE a + b

\* a % b: NaN when b is 0, otherwise the remainder with the sign of a
JsRem(a, b) ==
    IF IsNaN(a) \/ IsNaN(b) \/ b = 0 THEN NaN
    ELSE IF a >= 0 THEN a % b ELSE 0 - ((0 - a) % b)

JsStrictEq(a, b) == ~IsNaN(a) /\ ~IsNaN(b) /\ a = b
JsLess(a, b) == ~IsNaN(a) /\ ~IsNaN(b) /\ a < b
JsAbs(a) == IF a < 0 THEN 0 - a ELSE a

(* ---- the slide deck ---- *)
Deck == [totalSlides |-> totalSlides, slides |-> slides, dots |-> dots,
         currentSlide |-> currentSlide]

\* the class chosen cyclically: the slide just before slideIndex, wrapping
\* around, is 'prev'
slideClassFor_Cyclic(index, slideIndex) ==
    IF JsStrictEq(index, slideIndex) THEN "active"
    ELSE IF ~IsNaN(slideIndex) /\ totalSlides > 0
            /\ index = (slideIndex - 1) % totalSlides THEN "prev"
    ELSE "next"

slideClassFor(index, slideIndex) ==
    IF JsStrictEq(index, slideIndex) THEN "active"
    ELSE IF JsLess(index, slideIndex) THEN "prev"
    ELSE "next"

\* goToSlide with classList.toggle('active') lacking its force argument
goToSlide_Toggle(d, slideIndex) ==
    [d EXCEPT
        !.slides = [index \in DOMAIN d.slides |->
                        (d.slides[index] \ SlideClasses)
                            \cup {slideClassFor(index, slideIndex)}],
        !.dots = [index \in DOMAIN d.dots |->
                        IF JsStrictEq(index, slideIndex) THEN ~d.dots[index]
                        ELSE d.dots[index]],
        !.currentSlide = slideIndex]

\* goToSlide that selects the new dot without deselecting the others
goToSlide_KeepDots(d, slideIndex) ==
    [d EXCEPT
        !.slides = [index \in DOMAIN d.slides |->
                        (d.slides[index] \ SlideClasses)
                            \cup {slideClassFor(index, slideIndex)}],
        !.dots = [index \in DOMAIN d.dots |->
                        d.dots[index] \/ JsStrictEq(index, slideIndex)],
        !.currentSlide = slideIndex]

goToSlide(d, slideIndex) ==
    [d EXCEPT
        !.slides = [index \in DOMAIN d.slides |->
                        (d.slides[index] \ SlideClasses)
                            \cup {slideClassFor(index, slideIndex)}],
        !.dots = [index \in DOMAIN d.dots |-> JsStrictEq(index, slideIndex)],
        !.currentSlide = slideIndex]

\* nextSlide without the + 1
nextSlide_NoAdvance(d) ==
    goToSlide(d, JsRem(d.currentSlide, d.totalSlides))

\* nextSlide without the wraparound
nextSlide_NoWrap(d) == goToSlide(d, JsAdd(d.currentSlide, 1))

nextSlide(d) ==
    goToSlide(d, JsRem(JsAdd(d.currentSlide, 1), d.totalSlides))

\* prevSlide without adding totalSlides before the remainder
prevSlide_NoOffset(d) ==
    goToSlide(d, JsRem(JsAdd(d.currentSlide, -1), d.totalSlides))

prevSlide(d) ==
    goToSlide(d, JsRem(JsAdd(JsAdd(d.currentSlide, -1), d.totalSlides), d.totalSlides))

(* ---- the autoplay timer ---- *)
Timer == [autoPlayInterval |-> autoPlayInterval, intervals |-> intervals,
          nextTimerId |-> nextTimerId]

startAutoPlay(t) ==
    [t EXCEPT !.autoPlayInterval = t.nextTimerId,
              !.intervals = t.intervals \cup {t.nextTimerId},
              !.nextTimerId = t.nextTimerId + 1]

stopAutoPlay(t) ==
    IF t.autoPlayInterval # 0
    THEN [t EXCEPT !.intervals = t.intervals \ {t.autoPlayInterval}]
    ELSE t

\* the stop and start calls of restartAutoPlay
restartAutoPlay(t) == startAutoPlay(stopAutoPlay(t))

CanSchedule == nextTimerId <= MaxTimerId

SetDeck(d) ==
    /\ slides' = d.slides
    /\ dots' = d.dots
    /\ currentSlide' = d.currentSlide
    /\ UNCHANGED totalSlides

SetTimer(t) ==
    /\ autoPlayInterval' = t.autoPlayInterval
    /\ intervals' = t.intervals
    /\ nextTimerId' = t.nextTimerId

\* restartProgressBar: throws on a missing .progress-fill element
RestartProgressBar ==
    IF hasProgressBar
    THEN /\ progressAnimation' = "none"
         /\ progressTimeouts' = progressTimeouts + 1
         /\ fault' = FALSE
         /\ UNCHANGED hasProgressBar
    ELSE /\ fault' = TRUE
         /\ UNCHANGED progressVars

\* restartAutoPlay as a whole
RestartAutoPlay ==
    /\ SetTimer(restartAutoPlay(Timer))
    /\ RestartProgressBar

(* ---- the page as the script finds it ---- *)
InitialMarkup(n) == [index \in 0..(n - 1) |-> {slideClassFor(index, 0)}]
InitialDots(m) == [index \in 0..(m - 1) |-> index = 0]

Init ==
    /\ totalSlides \in 0..MaxSlides
    /\ slides = InitialMarkup(totalSlides)
    /\ \E m \in 0..MaxDots : dots = InitialDots(m)
    /\ currentSlide = 0
    /\ hasProgressBar \in BOOLEAN
    /\ progressAnimation = "css"
    /\ progressTimeouts = 0
    /\ touchStartX = 0
    /\ touchEndX = 0
    /\ hidden \in BOOLEAN
    /\ visibilityChanged = FALSE
    /\ fault = FALSE
    /\ lastEvent = <<"load", 0>>
    \* init() calls startAutoPlay()
    /\ autoPlayInterval = 1
    /\ intervals = {1}
    /\ nextTimerId = 2

(* ---- handlers ---- *)
\* the setInterval callback of schedule id
Tick(id) ==
    /\ id \in intervals
    /\ SetDeck(nextSlide(Deck))
    /\ fault' = FALSE
    /\ lastEvent' = <<"tick", id>>
    /\ UNCHANGED <<timerVars, progressVars, touchVars, pageVars>>

DotClick(index) ==
    /\ index \in DOMAIN dots
    /\ CanSchedule
    /\ SetDeck(goToSlide(Deck, index))
    /\ RestartAutoPlay
    /\ lastEvent' = <<"click", index>>
    /\ UNCHANGED <<touchVars, pageVars>>

\* handleKeydown whose second branch is a plain else
handleKeydown_AnyKey(key) ==
    /\ key \in Keys
    /\ lastEvent' = <<"keydown", key>>
    /\ IF key = "ArrowLeft"
       THEN CanSchedule /\ SetDeck(prevSlide(Deck)) /\ RestartAutoPlay
       ELSE CanSchedule /\ SetDeck(nextSlide(Deck)) /\ RestartAutoPlay
    /\ UNCHANGED <<touchVars, pageVars>>

handleKeydown(key) ==
    /\ key \in Keys
    /\ lastEvent' = <<"keydown", key>>
    /\ IF key = "ArrowLeft"
       THEN CanSchedule /\ SetDeck(prevSlide(Deck)) /\ RestartAutoPlay
       ELSE IF key = "ArrowRight"
       THEN CanSchedule /\ SetDeck(nextSlide(Deck)) /\ RestartAutoPlay
       ELSE fault' = FALSE /\ UNCHANGED <<deckVars, timerVars, progressVars>>
    /\ UNCHANGED <<touchVars, pageVars>>

handleTouchStart(x) ==
    /\ x \in Coords
    /\ touchStartX' = x
    /\ fault' = FALSE
    /\ lastEvent' = <<"touchstart", x>>
    /\ UNCHANGED <<deckVars, timerVars, progressVars, touchEndX, pageVars>>

SwipeDiff(startX, endX) == startX - endX
\* the threshold test with >= in place of >
IsSwipe_Inclusive(diff) == JsAbs(diff) >= SWIPE_THRESHOLD
IsSwipe(diff) == JsAbs(diff) > SWIPE_THRESHOLD
\* the branch of handleSwipe taken above the threshold
swipeTarget_Swapped(d, diff) == IF diff > 0 THEN prevSlide(d) ELSE nextSlide(d)
swipeTarget(d, diff) == IF diff > 0 THEN nextSlide(d) ELSE prevSlide(d)

\* handleTouchEnd with the handleSwipe it calls
handleTouchEnd(x) ==
    /\ x \in Coords
    /\ touchEndX' = x
    /\ lastEvent' = <<"touchend", x>>
    /\ LET diff == SwipeDiff(touchStartX, x) IN
       IF IsSwipe(diff)
       THEN /\ CanSchedule
            /\ SetDeck(swipeTarget(Deck, diff))
            /\ RestartAutoPlay
       ELSE fault' = FALSE /\ UNCHANGED <<deckVars, timerVars, progressVars>>
    /\ UNCHANGED <<touchStartX, pageVars>>

\* the visibilitychange listener calling restartAutoPlay on becoming visible
VisibilityChange_Restart ==
    /\ hidden' = ~hidden
    /\ visibilityChanged' = TRUE
    /\ IF hidden'
       THEN /\ SetTimer(stopAutoPlay(Timer))
            /\ fault' = FALSE
            /\ UNCHANGED progressVars
       ELSE CanSchedule /\ RestartAutoPlay
    /\ lastEvent' = <<"visibilitychange", IF hidden' THEN 1 ELSE 0>>
    /\ UNCHANGED <<deckVars, touchVars>>

\* the visibilitychange listener
VisibilityChange ==
    /\ hidden' = ~hidden
    /\ visibilityChanged' = TRUE
    /\ IF hidden'
       THEN SetTimer(stopAutoPlay(Timer))
       ELSE CanSchedule /\ SetTimer(startAutoPlay(Timer))
    /\ fault' = FALSE
    /\ lastEvent' = <<"visibilitychange", IF hidden' THEN 1 ELSE 0>>
    /\ UNCHANGED <<deckVars, progressVars, touchVars>>

\* the setTimeout callback of restartProgressBar
ProgressTimeout ==
    /\ progressTimeouts > 0
    /\ progressAnimation' = "progressFill"
    /\ progressTimeouts' = progressTimeouts - 1
    /\ fault' = FALSE
    /\ lastEvent' = <<"timeout", 0>>
    /\ UNCHANGED <<deckVars, timerVars, hasProgressBar, touchVars, pageVars>>

Next ==
    \/ \E id \in 1..MaxTimerId : Tick(id)
    \/ \E index \in 0..MaxDots : DotClick(index)
    \/ \E key \in Keys : handleKeydown(key)
    \/ \E x \in Coords : handleTouchStart(x)
    \/ \E x \in Coords : handleTouchEnd(x)
    \/ VisibilityChange
    \/ ProgressTimeout

Spec == Init /\ [][Next]_vars

(* ---- properties ---- *)
InRange == totalSlides >= 1 /\ currentSlide \in 0..(totalSlides - 1)
View(d) == <<d.currentSlide, d.slides, d.dots>>
ActiveSlides == {index \in DOMAIN slides : "active" \in slides[index]}

RECURSIVE nextSlideTimes(_, _)
nextSlideTimes(d, k) == IF k = 0 THEN d ELSE nextSlideTimes(nextSlide(d), k - 1)

\* d is the deck after k calls of nextSlide from index start: it and the decks
\* of the following calls, up to n calls in all, are at (start + calls) mod n
RECURSIVE CycleFrom(_, _, _, _)
CycleFrom(d, k, start, n) ==
    /\ d.currentSlide = (start + k) % n
    /\ k < n => CycleFrom(nextSlide(d), k + 1, start, n)

\* C1: at most one recurring autoplay schedule is pending in every reachable
\* state; startAutoPlay on a running timer creates no second schedule.
TimerExclusivity == Cardinality(intervals) <= 1

\* C2: with at least one slide, exactly one slide carries 'active' in every
\* reachable state and its index equals currentSlide.
ActiveSlideInvariant ==
    totalSlides >= 1 => ActiveSlides = {currentSlide}

\* C3: with at least one slide, currentSlide is an index of a slide in every
\* reachable state: 0 <= currentSlide < totalSlides.
IndexRangeInvariant ==
    totalSlides >= 1 => currentSlide \in 0..(totalSlides - 1)

\* C4: from every index i in 0..N-1 of a deck of N >= 1 slides, N calls of
\* nextSlide in a row bring currentSlide back to i, the k-th call leaving the
\* deck at (i + k) mod N.
Wraparound ==
    InRange =>
        /\ nextSlideTimes(Deck, totalSlides).currentSlide = currentSlide
        /\ CycleFrom(Deck, 0, currentSlide, totalSlides)

WraparoundWitness ==
    /\ lastEvent[1] = "tick"
    /\ totalSlides = MaxSlides
    /\ currentSlide = 0
    /\ ActiveSlides = {0}

\* C5: from every index i in 0..N-1 of a deck of N >= 1 slides, nextSlide then
\* prevSlide, and prevSlide then nextSlide, leave currentSlide and the class
\* lists of all slides and dots as they were.
RetreatInvertsAdvance ==
    InRange =>
        /\ View(prevSlide(nextSlide(Deck))) = View(Deck)
        /\ View(nextSlide(prevSlide(Deck))) = View(Deck)

RetreatInvertsAdvanceWitness ==
    /\ lastEvent[1] = "keydown"
    /\ lastEvent[2] = "ArrowLeft"
    /\ totalSlides >= 2
    /\ currentSlide = totalSlides - 1
    /\ ActiveSlides = {totalSlides - 1}

\* the handlers that call goToSlide
CallsGoToSlide ==
    \/ lastEvent'[1] = "tick" /\ \E id \in 1..MaxTimerId : Tick(id)
    \/ lastEvent'[1] = "click" /\ \E index \in 0..MaxDots : DotClick(index)
    \/ lastEvent'[1] = "keydown" /\ handleKeydown("ArrowLeft")
    \/ lastEvent'[1] = "keydown" /\ handleKeydown("ArrowRight")
    \/ /\ lastEvent'[1] = "touchend"
       /\ \E x \in Coords :
              JsAbs(touchStartX - x) > SWIPE_THRESHOLD /\ handleTouchEnd(x)

\* C6: in the state a handler leaves after calling goToSlide, a further
\* goToSlide(currentSlide) changes neither currentSlide nor the class list of
\* any slide or dot.
Idempotence ==
    [][CallsGoToSlide => View(goToSlide(Deck', currentSlide')) = View(Deck')]_vars

IdempotenceWitness ==
    /\ lastEvent[1] = "click"
    /\ lastEvent[2] = currentSlide
    /\ totalSlides >= 2
    /\ Cardinality(DOMAIN dots) >= 2
    /\ goToSlide(Deck, currentSlide) = Deck

SelectedDots == {index \in DOMAIN dots : dots[index]}

\* C7: a click on dot i makes i the current index in that one step and leaves
\* exactly dot i selected.
DotActivation ==
    [][\A index \in 0..MaxDots :
          (lastEvent'[1] = "click" /\ DotClick(index)) =>
              /\ currentSlide' = index
              /\ \A j \in DOMAIN dots' : dots'[j] <=> (j = index)]_vars

DotActivationWitness ==
    /\ lastEvent[1] = "click"
    /\ lastEvent[2] >= 2
    /\ currentSlide = lastEvent[2]
    /\ SelectedDots = {lastEvent[2]}

\* C8: a touch-end whose diff = touchStartX - endX exceeds 50 in absolute value
\* moves a deck of N >= 1 slides forward by one (mod N) when diff > 0 and back
\* by one (mod N) when diff < 0, and restarts the autoplay timer: the schedule
\* held in autoPlayInterval is cleared and a fresh one is created.
SwipeAboveThreshold ==
    [][\A x \in Coords :
          (/\ lastEvent'[1] = "touchend"
           /\ JsAbs(touchStartX - x) > SWIPE_THRESHOLD
           /\ totalSlides >= 1
           /\ handleTouchEnd(x)) =>
              /\ (touchStartX - x > 0) =>
                     currentSlide' = (currentSlide + 1) % totalSlides
              /\ (touchStartX - x < 0) =>
                     currentSlide' = (currentSlide - 1) % totalSlides
              /\ autoPlayInterval' \notin intervals
              /\ intervals' = (intervals \ {autoPlayInterval}) \cup {autoPlayInterval'}]_vars

SwipeAboveThresholdWitness ==
    /\ lastEvent[1] = "touchend"
    /\ touchStartX = 300
    /\ touchEndX = 200
    /\ totalSlides >= 2
    /\ currentSlide = 1
    /\ autoPlayInterval \in intervals

\* C9: a touch-end with |touchStartX - endX| <= 50 (50 included) leaves
\* currentSlide, every slide and dot class list, the autoplay schedule and the
\* progress indicator unchanged.
SwipeBelowThreshold ==
    [][\A x \in Coords :
          (/\ lastEvent'[1] = "touchend"
           /\ JsAbs(touchStartX - x) <= SWIPE_THRESHOLD
           /\ handleTouchEnd(x)) =>
              UNCHANGED <<deckVars, timerVars, progressVars>>]_vars

SwipeBelowThresholdWitness ==
    /\ lastEvent[1] = "touchend"
    /\ touchStartX - touchEndX = SWIPE_THRESHOLD
    /\ autoPlayInterval \in intervals

\* C10: between a transition to hidden and the next transition to visible no
\* timer tick changes currentSlide (of a deck of N >= 1 slides whose index is
\* in range).
HiddenNoTick ==
    [][\A id \in 1..MaxTimerId :
          (hidden /\ visibilityChanged /\ InRange /\ Tick(id)) =>
              currentSlide' = currentSlide]_vars

\* C11: a touch-end delivered before any touch-start (touchStartX still holds
\* its initial 0, which no touch-start of the model writes) changes no slide,
\* leaves the autoplay schedule and the progress indicator alone and, on a page
\* that has its progress bar, raises no fault, whatever the end coordinate
\* (deck of N >= 1 slides).
TouchEndWithoutStart ==
    [][\A x \in Coords :
          (touchStartX = 0 /\ totalSlides >= 1 /\ handleTouchEnd(x)) =>
              /\ UNCHANGED <<deckVars, timerVars, progressVars>>
              /\ hasProgressBar => ~fault']_vars

\* C12: with zero slides every handler leaves currentSlide as it was and, on a
\* page that has its progress bar, raises no fault.
ZeroSlidesNoOp ==
    [][totalSlides = 0 =>
          /\ currentSlide' = currentSlide
          /\ hasProgressBar => ~fault']_vars

\* C13: when stopAutoPlay returns (the page has just become hidden) no autoplay
\* schedule is pending, and a stopAutoPlay on a stopped timer changes nothing.
StopCancelsSchedule ==
    [][(VisibilityChange /\ hidden') =>
          /\ intervals' = {}
          /\ intervals = {} => UNCHANGED timerVars]_vars

\* the handlers that call restartAutoPlay: the user commands that move the deck
UserCommand ==
    \/ lastEvent'[1] = "click" /\ \E index \in 0..MaxDots : DotClick(index)
    \/ lastEvent'[1] = "keydown" /\ handleKeydown("ArrowLeft")
    \/ lastEvent'[1] = "keydown" /\ handleKeydown("ArrowRight")
    \/ /\ lastEvent'[1] = "touchend"
       /\ \E x \in Coords :
              JsAbs(touchStartX - x) > SWIPE_THRESHOLD /\ handleTouchEnd(x)

\* C14: after a user command that moves the deck (dot click, arrow key, swipe
\* above the threshold) the only pending autoplay schedule is the one that
\* command created, so no countdown started before the command can fire
\* afterwards.
CountdownReset ==
    [][(InRange /\ UserCommand) =>
          /\ autoPlayInterval' \notin intervals
          /\ intervals' = {autoPlayInterval'}]_vars

\* C15: a key other than ArrowLeft and ArrowRight leaves the deck, the autoplay
\* schedule, the progress indicator and the touch coordinates unchanged;
\* ArrowLeft moves a deck of N >= 1 slides back by one (mod N) and ArrowRight
\* forward by one (mod N).
KeyDispatch ==
    [][\A key \in Keys :
          (lastEvent'[1] = "keydown" /\ handleKeydown(key)) =>
              /\ key \notin {"ArrowLeft", "ArrowRight"} =>
                     UNCHANGED <<deckVars, timerVars, progressVars, touchVars>>
              /\ (key = "ArrowLeft" /\ totalSlides >= 1) =>
                     currentSlide' = (currentSlide - 1) % totalSlides
              /\ (key = "ArrowRight" /\ totalSlides >= 1) =>
                     currentSlide' = (currentSlide + 1) % totalSlides]_vars

KeyDispatchWitness ==
    /\ lastEvent[1] = "keydown"
    /\ lastEvent[2] = "Enter"
    /\ totalSlides >= 2
    /\ currentSlide = 1
    /\ autoPlayInterval \in intervals
    /\ progressAnimation = "progressFill"

\* C16: the step that makes the page visible leaves a running schedule in
\* autoPlayInterval and changes neither the progress indicator nor the deck;
\* the progress indicator is re-armed only by the handlers that call
\* restartAutoPlay.
VisibleStartsWithoutReset ==
    [][/\ (lastEvent'[1] = "visibilitychange" /\ ~hidden' /\ VisibilityChange) =>
              /\ autoPlayInterval' \in intervals'
              /\ UNCHANGED <<progressVars, deckVars>>
       /\ (progressTimeouts' > progressTimeouts) => UserCommand]_vars

VisibleStartsWithoutResetWitness ==
    /\ lastEvent[1] = "visibilitychange"
    /\ ~hidden
    /\ autoPlayInterval \in intervals
    /\ progressAnimation = "progressFill"
    /\ progressTimeouts = 0

\* C17: once a touch-end has been handled, a further touch-end that follows it
\* with no touch-start in between (the gesture had been started by a
\* touch-start) changes no slide.
OneCommandPerGesture ==
    [][\A x \in Coords :
          (/\ lastEvent[1] = "touchend"
           /\ touchStartX # 0
           /\ totalSlides >= 1
           /\ handleTouchEnd(x)) => UNCHANGED deckVars]_vars

\* C18: goToSlide(index) with index in 0..N-1 leaves every slide j with exactly
\* one class: 'active' when j = index, 'prev' when j < index, 'next' when
\* j > index (linear order, no wraparound).
LinearSlideStates ==
    \A slideIndex \in 0..(totalSlides - 1) :
        LET d == goToSlide(Deck, slideIndex) IN
        \A j \in 0..(totalSlides - 1) :
            d.slides[j] =
                {IF j = slideIndex THEN "active"
                 ELSE IF j < slideIndex THEN "prev" ELSE "next"}

LinearSlideStatesWitness ==
    /\ lastEvent[1] = "click"
    /\ totalSlides = 3
    /\ currentSlide = 1
    /\ slides = [j \in 0..2 |-> {IF j = 0 THEN "prev" ELSE IF j = 1 THEN "active" ELSE "next"}]

\* C19: restartAutoPlay called with exactly one schedule pending leaves exactly
\* one schedule pending, and it is a new one: the old schedule does not
\* survive next to it.
RestartCancelsFirst ==
    [][(InRange /\ UserCommand /\ Cardinality(intervals) = 1) =>
          /\ Cardinality(intervals') = 1
          /\ intervals' \cap intervals = {}]_vars

(* ---- autoplay alone: the page is left to its timer ---- *)
AutoNext == \E id \in 1..MaxTimerId : Tick(id)

AutoSpec == Init /\ [][AutoNext]_vars /\ WF_vars(AutoNext)

\* C20: on a visible page with N >= 1 slides that receives no input, with the
\* schedule started by init firing fairly, every index in 0..N-1 is the current
\* slide infinitely often and every tick moves the deck forward by one (mod N).
AutoplayCycles ==
    /\ \A i \in 0..(MaxSlides - 1) :
           []<>((~hidden /\ i < totalSlides) => currentSlide = i)
    /\ [][(~hidden /\ totalSlides >= 1) =>
              currentSlide' = (currentSlide + 1) % totalSlides]_vars

AutoplayCyclesWitness ==
    /\ lastEvent[1] = "tick"
    /\ ~hidden
    /\ ~visibilityChanged
    /\ totalSlides = MaxSlides
    /\ currentSlide = 0
    /\ intervals = {1}

====
